---- MODULE Spec2Model ----
(***************************************************************************)
(* Model of vznncv-miniterm: the line-buffered serial console of           *)
(* src/src/vznncv/miniterm/_miniterm.py and the command line entry point   *)
(* of src/src/vznncv/miniterm/_cli.py.                                     *)
(*                                                                         *)
(* Bytes are their integer values, a byte string is a sequence of bytes,   *)
(* a text (python str) is a sequence of code points.  The asyncio loop is  *)
(* modelled by its ready queue: an iteration runs the ntodo handles that   *)
(* were ready when it began (BaseEventLoop._run_once), handles scheduled   *)
(* meanwhile wait for the next iteration, and run_forever returns at the   *)
(* end of the iteration in which loop.stop() was called.                   *)
(* KeyboardInterrupt surfaces between two handles of the loop, or out of   *)
(* the statement miniterm() is executing.                                  *)
(***************************************************************************)
EXTENDS Integers, Sequences, FiniteSets, TLC

\* ------------------------------------------------------------ bounds
\* most bytes the device delivers in one session
MaxRecv == 3
\* longest chunk one read of the device returns
MaxChunkLen == 2

\* ------------------------------------------------------------ bytes
\* '\n' and '\r'
LF == 10
CR == 13

\* bytes the device sends: both line-end bytes, a blank (32), a letter (65)
\* and the two bytes of U+00E9 (195, 169), each of them malformed when alone
ByteSet == {LF, CR, 32, 65, 195, 169}

EolSet == {"cr", "lf", "crlf"}

\* ------------------------------------------------------------ text helpers
RECURSIVE Replace(_, _, _)
\* str.replace(old, new) for a one-character old
Replace(text, old, new) ==
    IF text = <<>> THEN <<>>
    ELSE (IF Head(text) = old THEN new ELSE <<Head(text)>>) \o Replace(Tail(text), old, new)

RECURSIVE Flatten(_)
\* b''.join(parts) / ''.join(parts)
Flatten(parts) ==
    IF parts = <<>> THEN <<>> ELSE Head(parts) \o Flatten(Tail(parts))

IsLead2(b) == b >= 194 /\ b <= 223
IsCont(b) == b >= 128 /\ b <= 191

RECURSIVE Utf8Decode(_)
\* bytes.decode('utf-8', errors='ignore') on one- and two-byte sequences:
\* a malformed byte is dropped and decoding resumes at the next byte
Utf8Decode(bs) ==
    IF bs = <<>> THEN <<>>
    ELSE IF Head(bs) < 128 THEN <<Head(bs)>> \o Utf8Decode(Tail(bs))
    ELSE IF IsLead2(Head(bs)) /\ Len(bs) >= 2 /\ IsCont(bs[2])
         THEN <<(Head(bs) - 192) * 64 + (bs[2] - 128)>> \o Utf8Decode(Tail(Tail(bs)))
    ELSE Utf8Decode(Tail(bs))

RECURSIVE Utf8Encode(_)
\* str.encode('utf-8') for code points below U+0800
Utf8Encode(text) ==
    IF text = <<>> THEN <<>>
    ELSE (IF Head(text) < 128 THEN <<Head(text)>>
          ELSE <<192 + (Head(text) \div 64), 128 + (Head(text) % 64)>>)
         \o Utf8Encode(Tail(text))

\* str.isspace() for code points below U+0800
IsSpace(c) == c \in {9, 10, 11, 12, 13, 28, 29, 30, 31, 32, 133, 160}

RECURSIVE LStrip(_)
LStrip(text) ==
    IF text # <<>> /\ IsSpace(Head(text)) THEN LStrip(Tail(text)) ELSE text

RECURSIVE RStrip(_)
RStrip(text) ==
    IF text # <<>> /\ IsSpace(text[Len(text)])
    THEN RStrip(SubSeq(text, 1, Len(text) - 1)) ELSE text

\* str.strip()
Strip(text) == RStrip(LStrip(text))

\* ------------------------------------------------------------ Transform
\* an rx that returns the text as it came, whatever the class
rx_untouched(e, text) == text

\* Transform.rx / CRLF.rx / CR.rx
rx(e, text) ==
    IF e = "crlf" THEN Replace(text, CR, <<>>)
    ELSE IF e = "cr" THEN Replace(text, CR, <<LF>>)
    ELSE text

\* Transform.tx / CRLF.tx / CR.tx
tx(e, text) ==
    IF e = "crlf" THEN Replace(text, LF, <<CR, LF>>)
    ELSE IF e = "cr" THEN Replace(text, LF, <<CR>>)
    ELSE text

\* _SerialOutput.__init__: transform.tx('\n').encode('utf-8')[0:1]
newline_sep(e) == SubSeq(Utf8Encode(tx(e, <<LF>>)), 1, 1)

\* ------------------------------------------------------------ InteractiveShell
\* InteractiveShell._cleanup_text
cleanup_text(text) == Replace(text, CR, <<>>)

\* write_line_async without its text.strip()
write_line_text_nostrip(text) == cleanup_text(text)

\* what write_line_async hands to print_formatted_text
write_line_text(text) == Strip(cleanup_text(text))

\* ------------------------------------------------------------ reassembler
RECURSIVE Split(_, _)
\* bytes.split(sep) for a one-byte sep: one more piece than separators
Split(data, sep) ==
    IF \A i \in 1..Len(data) : data[i] # sep[1] THEN <<data>>
    ELSE LET i == CHOOSE k \in 1..Len(data) :
                     data[k] = sep[1] /\ \A j \in 1..(k - 1) : data[j] # sep[1]
         IN <<SubSeq(data, 1, i - 1)>> \o Split(SubSeq(data, i + 1, Len(data)), sep)

RECURSIVE ConsumeBlocksLastFragment(_, _, _, _)
\* the loop with self._buf[-1] in place of b''.join(self._buf)
ConsumeBlocksLastFragment(e, b, blocks, lines) ==
    IF blocks = <<>> THEN [buf |-> b, lines |-> lines]
    ELSE ConsumeBlocksLastFragment(e, <<Head(blocks)>>, Tail(blocks),
                                   Append(lines, rx(e, Utf8Decode(b[Len(b)]))))

RECURSIVE ConsumeBlocks(_, _, _, _)
\* the for loop of _consume_data over data_blocks[1:]: each block closes the
\* line held in the buffer and becomes the buffer's only fragment
ConsumeBlocks(e, b, blocks, lines) ==
    IF blocks = <<>> THEN [buf |-> b, lines |-> lines]
    ELSE ConsumeBlocks(e, <<Head(blocks)>>, Tail(blocks),
                       Append(lines, rx(e, Utf8Decode(Flatten(b)))))

\* a _consume_data that starts from the first block alone, whatever the
\* buffer held
consume_data_fresh(e, b, data) ==
    LET data_blocks == Split(data, newline_sep(e))
    IN ConsumeBlocks(e, <<Head(data_blocks)>>, Tail(data_blocks), <<>>)

\* _SerialOutput._consume_data: the buffer it leaves and the lines it emits
consume_data(e, b, data) ==
    LET data_blocks == Split(data, newline_sep(e))
    IN ConsumeBlocks(e, Append(b, Head(data_blocks)), Tail(data_blocks), <<>>)

\* ------------------------------------------------------------ state
VARIABLES
    eol,              \* miniterm(eol=...), lower-cased
    output_file,      \* miniterm(output_file=...) is not None
    pc,               \* the statement miniterm() is executing
    device_ok,        \* the physical device is present and working
    serial,           \* the device handle held by the transport
    reader,           \* the transport watches the handle for input
    transport,        \* _SerialOutput._transport
    buf,              \* _SerialOutput._buf: the list of fragments
    output_file_obj,  \* _SerialOutput._output_file_obj is not None
    log_content,      \* text written to the output file
    ready,            \* the loop's queue of ready handles
    ntodo,            \* handles left to run in the current iteration
    stopping,         \* loop.stop() was called
    last_exc,         \* InteractiveShell.last_exc
    pending_exc,      \* exception propagating through the finally block
    display,          \* lines printed by write_line_async
    sync_out,         \* notices printed by write_sync
    stderr,           \* messages on the error stream
    result,           \* how miniterm() ended
    restore_calls,    \* calls of _clear_tty_settings
    restore_done,     \* a call of _clear_tty_settings returned
    tty,              \* terminal state
    received,         \* history: every byte handed to data_received
    nchunks,          \* history: calls of data_received
    emitted,          \* history: every line _consume_data emitted
    flush_calls,      \* history: calls of _consume_data(newline_sep) on connection loss
    trigger,          \* history: the event that first ended the Active phase
    late_interrupt,   \* history: a KeyboardInterrupt arrived during cleanup
    fail_after_int,   \* history: the device failed after an interrupt began shutdown
    input_task,       \* the task running _process_input_async
    submitted,        \* history: the texts prompt_async returned or is about to return
    write_calls,      \* history: every transport.write of _process_input_async
    sync_task,        \* the task running _sync_output_file
    log_opens,        \* history: calls of open() for the output file
    log_closes,       \* history: calls of close() on the output file
    log_stray,        \* history: a line was written to a file that was not open
    flush_absent,     \* history: flush() was called with _output_file_obj None
    t_pc,             \* Transform round trip: the call that comes next
    t_text,           \* Transform round trip: the text handed to tx
    t_wire,           \* Transform round trip: what tx returned
    t_back,           \* Transform round trip: what rx returned for it
    argv,             \* main(args): the command line
    system_ports,     \* what serial.tools.list_ports.comports() reports
    m_pc,             \* the statement main() is executing
    m_args,           \* parsed_args
    m_device,         \* the local variable device of main()
    m_printed,        \* devices of the port list main() printed
    m_exit,           \* how main() ended
    m_resolves,       \* history: calls of SerialPortSearcher.resolve
    m_sessions        \* history: calls of miniterm()

cfg == <<eol, output_file>>
proto == <<transport, buf, output_file_obj, log_content, last_exc>>
loopv == <<ready, ntodo, stopping>>
chan == <<device_ok, serial, reader>>
outs == <<display, sync_out, stderr>>
term == <<result, restore_calls, restore_done, tty, pending_exc>>
hist == <<received, nchunks, emitted, flush_calls, trigger, late_interrupt, fail_after_int>>

wr == <<input_task, submitted, write_calls>>
logv == <<sync_task, log_opens, log_closes, log_stray, flush_absent>>
trip == <<t_pc, t_text, t_wire, t_back>>

\* the state of one miniterm() call
session == <<cfg, pc, proto, loopv, chan, outs, term, hist, wr, logv>>

cli == <<argv, system_ports, m_pc, m_args, m_device, m_printed, m_exit, m_resolves,
         m_sessions>>

vars == <<session, trip, cli>>

\* a handle of the ready queue
Handle(kind, data) == [kind |-> kind, data |-> data]

\* non-empty chunks a single read may return
Chunks == UNION {[1..n -> ByteSet] : n \in 1..MaxChunkLen}

\* asyncio.ensure_future(self._ps.write_line_async(line)) for each line
DisplayTasks(lines) == [i \in 1..Len(lines) |-> Handle("write_line_async", lines[i])]

\* self._output_file_obj.write(line) for each line
LogWrite(content, lines) == content \o Flatten(lines)

\* miniterm() is entered: nothing is connected, nothing was printed
InitSession ==
    /\ eol \in EolSet
    /\ output_file \in BOOLEAN
    /\ pc = "banner"
    /\ device_ok = TRUE
    /\ serial = "closed"
    /\ reader = FALSE
    /\ transport = "None"
    /\ buf = <<>>
    /\ output_file_obj = FALSE
    /\ log_content = <<>>
    /\ ready = <<>>
    /\ ntodo = 0
    /\ stopping = FALSE
    /\ last_exc = "None"
    /\ pending_exc = "None"
    /\ display = <<>>
    /\ sync_out = <<>>
    /\ stderr = <<>>
    /\ result = "running"
    /\ restore_calls = 0
    /\ restore_done = FALSE
    /\ tty = "raw"
    /\ received = <<>>
    /\ nchunks = 0
    /\ emitted = <<>>
    /\ flush_calls = 0
    /\ trigger = "none"
    /\ late_interrupt = FALSE
    /\ fail_after_int = FALSE
    /\ input_task = "none"
    /\ submitted = <<>>
    /\ write_calls = <<>>
    /\ sync_task = "none"
    /\ log_opens = 0
    /\ log_closes = 0
    /\ log_stray = FALSE
    /\ flush_absent = FALSE

\* no Transform call is under way
TripIdle ==
    /\ t_pc = "off"
    /\ t_text = <<>>
    /\ t_wire = <<>>
    /\ t_back = <<>>

\* parsed_args before parse_args has run
NoArgs == [list_ports |-> FALSE, no_input |-> FALSE]

\* main() is not running
CliIdle ==
    /\ argv = [flags |-> {}, port |-> "None", filter |-> [given |-> FALSE, items |-> <<>>]]
    /\ system_ports = <<>>
    /\ m_pc = "off"
    /\ m_args = NoArgs
    /\ m_device = "None"
    /\ m_printed = <<>>
    /\ m_exit = "running"
    /\ m_resolves = 0
    /\ m_sessions = 0

Init == InitSession /\ TripIdle /\ CliIdle

\* ------------------------------------------------------------ miniterm(): startup
\* the ps.write_sync banner lines at the head of the try block
Banner ==
    /\ pc = "banner"
    /\ sync_out' = Append(sync_out, "banner")
    /\ pc' = "connect"
    /\ UNCHANGED <<cfg, logv, wr, proto, loopv, chan, display, stderr, term, hist>>

\* create_serial_connection raises: the exception leaves run_until_complete
OpenFail ==
    /\ pc = "connect"
    /\ pending_exc' = "SerialException"
    /\ trigger' = "open_error"
    /\ pc' = "finally"
    /\ UNCHANGED <<cfg, logv, wr, proto, loopv, chan, outs, result, restore_calls, restore_done, tty,
                   received, nchunks, emitted, flush_calls, late_interrupt, fail_after_int>>

\* create_serial_connection succeeds: the transport schedules connection_made,
\* and ensure_future schedules the first step of _process_input_async
OpenOk ==
    /\ pc = "connect"
    /\ device_ok
    /\ serial' = "open"
    /\ ready' = ready \o <<Handle("connection_made", <<>>), Handle("process_input", <<>>)>>
    /\ input_task' = "scheduled"
    /\ pc' = "run_forever"
    /\ UNCHANGED <<cfg, logv, submitted, write_calls, proto, ntodo, stopping, device_ok, reader,
                   outs, term, hist>>

\* the device breaks or is unplugged while its handle is open
DeviceFail ==
    /\ serial = "open"
    /\ device_ok
    /\ pc # "done"
    /\ device_ok' = FALSE
    /\ fail_after_int' = (fail_after_int \/ trigger = "interrupt")
    /\ UNCHANGED <<cfg, logv, wr, pc, proto, loopv, serial, reader, outs, term,
                   received, nchunks, emitted, flush_calls, trigger, late_interrupt>>

\* ------------------------------------------------------------ loop.run_forever()
\* one iteration begins: the handle is readable (the device has more data,
\* or has failed) or not, and every handle that is ready now will run in this
\* iteration
RunOnce(more_data) ==
    /\ pc = "run_forever"
    /\ ntodo = 0
    /\ ~stopping
    /\ \E readable \in BOOLEAN :
         /\ readable => (reader /\ (~device_ok \/ more_data))
         /\ ready' = IF readable THEN Append(ready, Handle("read_ready", <<>>)) ELSE ready
    /\ ready' # <<>>
    /\ ntodo' = Len(ready')
    /\ UNCHANGED <<cfg, logv, wr, pc, proto, stopping, chan, outs, term, hist>>

\* a handle may run
Runs(kind) ==
    /\ pc = "run_forever"
    /\ ntodo > 0
    /\ Head(ready).kind = kind

\* the output file is open: open() was called and close() was not
LogIsOpen == log_opens > log_closes

\* _SerialOutput.connection_made: the output file is opened when one is
\* configured, and ensure_future schedules the first step of _sync_output_file
ConnectionMade ==
    /\ Runs("connection_made")
    /\ transport' = "SerialTransport"
    /\ buf' = <<>>
    /\ IF output_file /\ ~output_file_obj
       THEN /\ output_file_obj' = TRUE
            /\ log_content' = <<>>
            /\ log_opens' = log_opens + 1
            /\ sync_task' = "scheduled"
            /\ ready' = Append(Tail(ready), Handle("sync_output_file", <<>>))
       ELSE /\ ready' = Tail(ready)
            /\ UNCHANGED <<output_file_obj, log_content, log_opens, sync_task>>
    /\ reader' = TRUE
    /\ ntodo' = ntodo - 1
    /\ UNCHANGED <<cfg, log_closes, log_stray, flush_absent, wr, pc, last_exc, stopping,
                   device_ok, serial, outs, term, hist>>

\* _SerialOutput.data_received
DataReceived(chunk) ==
    /\ Runs("read_ready")
    /\ device_ok
    /\ LET r == consume_data(eol, buf, chunk)
       IN /\ buf' = r.buf
          /\ emitted' = emitted \o r.lines
          /\ log_content' = IF output_file_obj THEN LogWrite(log_content, r.lines)
                            ELSE log_content
          /\ log_stray' = (log_stray \/ (output_file_obj /\ r.lines # <<>> /\ ~LogIsOpen))
          /\ ready' = Tail(ready) \o DisplayTasks(r.lines)
    /\ received' = received \o chunk
    /\ nchunks' = nchunks + 1
    /\ ntodo' = ntodo - 1
    /\ UNCHANGED <<cfg, sync_task, log_opens, log_closes, flush_absent, wr, pc, transport, output_file_obj, last_exc, stopping, chan, outs, term,
                   flush_calls, trigger, late_interrupt, fail_after_int>>

\* the transport is closing: connection_lost is scheduled or has run
Closing ==
    \/ flush_calls > 0
    \/ \E i \in 1..Len(ready) : ready[i].kind = "connection_lost"

\* the read of the handle raises: the transport stops reading and schedules
\* connection_lost
ReadError ==
    /\ Runs("read_ready")
    /\ ~device_ok
    /\ ~Closing
    /\ reader' = FALSE
    /\ ready' = Append(Tail(ready), Handle("connection_lost", <<>>))
    /\ ntodo' = ntodo - 1
    /\ UNCHANGED <<cfg, logv, wr, pc, proto, stopping, device_ok, serial, outs, term, hist>>

\* InteractiveShell.write_line_async
WriteLineAsync ==
    /\ Runs("write_line_async")
    /\ display' = Append(display, write_line_text(Head(ready).data))
    /\ ready' = Tail(ready)
    /\ ntodo' = ntodo - 1
    /\ UNCHANGED <<cfg, logv, wr, pc, proto, stopping, chan, sync_out, stderr, term, hist>>

\* _SerialOutput.connection_lost(exc); the exception it re-raises reaches
\* suppress_keyboard_interrupt_handler, which hands it to the loop's default
\* handler, and that one logs it on the error stream
ConnectionLost ==
    /\ Runs("connection_lost")
    /\ LET r == consume_data(eol, buf, newline_sep(eol))
       IN /\ emitted' = emitted \o r.lines
          /\ log_content' = IF output_file_obj THEN LogWrite(log_content, r.lines)
                            ELSE log_content
          /\ log_stray' = (log_stray \/ (output_file_obj /\ r.lines # <<>> /\ ~LogIsOpen))
          /\ ready' = Tail(ready) \o DisplayTasks(r.lines)
    /\ flush_calls' = flush_calls + 1
    /\ log_closes' = IF output_file_obj THEN log_closes + 1 ELSE log_closes
    /\ output_file_obj' = FALSE
    /\ stopping' = TRUE
    /\ transport' = "None"
    /\ buf' = <<>>
    /\ last_exc' = "SerialException"
    /\ stderr' = Append(stderr, "Exception in callback")
    /\ serial' = "closed"
    /\ trigger' = IF trigger = "none" THEN "device_error" ELSE trigger
    /\ ntodo' = ntodo - 1
    /\ UNCHANGED <<cfg, sync_task, log_opens, flush_absent, wr, pc, device_ok, reader, display,
                   sync_out, term, received, nchunks, late_interrupt, fail_after_int>>

\* ------------------------------------------------------------ _sync_output_file
\* the first step of the task: the file object is there, asyncio.sleep(2) is
\* awaited; were it gone already, the task would end at once
SyncOutputFileStart ==
    /\ Runs("sync_output_file")
    /\ sync_task' = IF output_file_obj THEN "sleeping" ELSE "done"
    /\ ready' = Tail(ready)
    /\ ntodo' = ntodo - 1
    /\ UNCHANGED <<cfg, log_opens, log_closes, log_stray, flush_absent, wr, pc, proto, stopping,
                   chan, outs, term, hist>>

\* the two seconds are over while the loop waits between two iterations: the
\* wake-up of the task is scheduled
SleepOver ==
    /\ pc = "run_forever"
    /\ ntodo = 0
    /\ ~stopping
    /\ sync_task = "sleeping"
    /\ sync_task' = "woken"
    /\ ready' = Append(ready, Handle("sync_wakeup", <<>>))
    /\ UNCHANGED <<cfg, log_opens, log_closes, log_stray, flush_absent, wr, pc, proto, ntodo,
                   stopping, chan, outs, term, hist>>

\* the task resumes after the sleep: self._output_file_obj.flush(), with no
\* look at the attribute first; on None the call raises AttributeError and
\* the task ends with it, otherwise the while condition is evaluated again
SyncOutputFileWake ==
    /\ Runs("sync_wakeup")
    /\ flush_absent' = (flush_absent \/ ~output_file_obj)
    /\ sync_task' = IF output_file_obj THEN "sleeping" ELSE "failed"
    /\ stderr' \in IF output_file_obj THEN {stderr}
                   ELSE {stderr, Append(stderr, "Task exception was never retrieved")}
    /\ ready' = Tail(ready)
    /\ ntodo' = ntodo - 1
    /\ UNCHANGED <<cfg, log_opens, log_closes, log_stray, wr, pc, proto, stopping, chan,
                   display, sync_out, term, hist>>

\* ------------------------------------------------------------ _process_input_async
\* the first step of the task: newline_sym is computed and prompt_async awaited
ProcessInputStart ==
    /\ Runs("process_input")
    /\ input_task' = "prompt"
    /\ ready' = Tail(ready)
    /\ ntodo' = ntodo - 1
    /\ UNCHANGED <<cfg, logv, submitted, write_calls, pc, proto, stopping, chan, outs, term, hist>>

\* the user may act on the prompt: the loop waits between two iterations and
\* the task waits in prompt_async
AtPrompt ==
    /\ pc = "run_forever"
    /\ ntodo = 0
    /\ ~stopping
    /\ input_task = "prompt"

\* the user submits a line: prompt_async is about to return it, the wake-up
\* of the task is scheduled
PromptAccept(line) ==
    /\ AtPrompt
    /\ submitted' = Append(submitted, line)
    /\ input_task' = "woken"
    /\ ready' = Append(ready, Handle("prompt_result", line))
    /\ UNCHANGED <<cfg, logv, write_calls, pc, proto, ntodo, stopping, chan, outs, term, hist>>

\* the user closes the input (Ctrl+D): prompt_async is about to raise EOFError
PromptEOF ==
    /\ AtPrompt
    /\ input_task' = "woken"
    /\ ready' = Append(ready, Handle("prompt_eof", <<>>))
    /\ UNCHANGED <<cfg, logv, submitted, write_calls, pc, proto, ntodo, stopping, chan, outs, term,
                   hist>>

\* tx_data = (tx_data + newline_sym).encode('utf-8') with newline_sym = tx('\n')
TxData(e, line) == Utf8Encode(line \o tx(e, <<LF>>))

\* what transport.write does with the data: a closing or closed transport
\* drops it, an open one hands it to the device, and a failed device makes
\* the write a fatal error of the transport
WriteOutcome ==
    IF flush_calls > 0 THEN "lost"
    ELSE IF Closing THEN "closing"
    ELSE IF device_ok THEN "sent"
    ELSE "error"

\* a task step that calls transport.write twice
transport_write_twice(calls, data, st) ==
    calls \o <<[data |-> data, st |-> st], [data |-> data, st |-> st]>>

\* transport.write(tx_data), recorded with what the transport did with it
transport_write(calls, data, st) == Append(calls, [data |-> data, st |-> st])

\* the task resumes with the line: one transport.write, then prompt_async
\* again; a fatal write error is reported to the loop's exception handler,
\* the transport stops reading and schedules connection_lost
ProcessInput ==
    /\ Runs("prompt_result")
    /\ write_calls' = transport_write(write_calls, TxData(eol, Head(ready).data),
                                      WriteOutcome)
    /\ input_task' = "prompt"
    /\ IF WriteOutcome = "error"
       THEN /\ reader' = FALSE
            /\ ready' = Append(Tail(ready), Handle("connection_lost", <<>>))
            /\ stderr' = Append(stderr, "Fatal write error on serial transport")
       ELSE /\ ready' = Tail(ready)
            /\ UNCHANGED <<reader, stderr>>
    /\ ntodo' = ntodo - 1
    /\ UNCHANGED <<cfg, logv, submitted, pc, proto, stopping, device_ok, serial, display, sync_out,
                   term, hist>>

\* the task resumes with EOFError and ends with it; nothing awaits the task,
\* so the exception is reported, if at all, when the task object is collected
ProcessInputEOF ==
    /\ Runs("prompt_eof")
    /\ input_task' = "failed"
    /\ stderr' \in {stderr, Append(stderr, "Task exception was never retrieved")}
    /\ ready' = Tail(ready)
    /\ ntodo' = ntodo - 1
    /\ UNCHANGED <<cfg, logv, submitted, write_calls, pc, proto, stopping, chan, display, sync_out,
                   term, hist>>

\* a read handle the closing transport has cancelled is skipped
CancelledRead ==
    /\ Runs("read_ready")
    /\ Closing
    /\ ready' = Tail(ready)
    /\ ntodo' = ntodo - 1
    /\ UNCHANGED <<cfg, logv, wr, pc, proto, stopping, chan, outs, term, hist>>

\* run_forever returns at the end of the iteration that called loop.stop()
RunForeverReturn ==
    /\ pc = "run_forever"
    /\ ntodo = 0
    /\ stopping
    /\ stopping' = FALSE
    /\ pc' = "finally"
    /\ UNCHANGED <<cfg, logv, wr, proto, ready, ntodo, chan, outs, term, hist>>

\* ------------------------------------------------------------ miniterm(): shutdown
\* KeyboardInterrupt inside the try block: control goes to the except clause
KeyboardInterruptInTry ==
    /\ pc \in {"banner", "connect", "run_forever"}
    /\ pc' = "except"
    /\ trigger' = IF trigger = "none" THEN "interrupt" ELSE trigger
    /\ UNCHANGED <<cfg, logv, wr, proto, loopv, chan, outs, term,
                   received, nchunks, emitted, flush_calls, late_interrupt, fail_after_int>>

\* except KeyboardInterrupt: ps.write_sync('Stop ...')
ExceptClause ==
    /\ pc = "except"
    /\ sync_out' = Append(sync_out, "Stop ...")
    /\ pc' = "finally"
    /\ UNCHANGED <<cfg, logv, wr, proto, loopv, chan, display, stderr, term, hist>>

\* a second KeyboardInterrupt while the except clause runs: it propagates
\* through the finally block
KeyboardInterruptInExcept ==
    /\ pc = "except"
    /\ pending_exc' = "KeyboardInterrupt"
    /\ late_interrupt' = TRUE
    /\ pc' = "finally"
    /\ UNCHANGED <<cfg, logv, wr, proto, loopv, chan, outs, result, restore_calls, restore_done, tty,
                   received, nchunks, emitted, flush_calls, trigger, fail_after_int>>

\* _clear_tty_settings(): `stty sane` when stty is on the PATH
clear_tty_settings ==
    /\ pc = "finally"
    /\ restore_calls' = restore_calls + 1
    /\ restore_done' = TRUE
    /\ \E stty_path \in {"stty", "None"} :
         tty' = IF stty_path # "None" THEN "sane" ELSE tty
    /\ pc' = "report"
    /\ UNCHANGED <<cfg, logv, wr, proto, loopv, chan, outs, result, pending_exc, hist>>

\* KeyboardInterrupt while _clear_tty_settings() runs: the call is abandoned
\* and the exception leaves miniterm()
KeyboardInterruptInRestore ==
    /\ pc = "finally"
    /\ restore_calls' = restore_calls + 1
    /\ tty' \in {tty, "sane"}
    /\ pending_exc' = "KeyboardInterrupt"
    /\ late_interrupt' = TRUE
    /\ result' = "raise"
    /\ pc' = "done"
    /\ UNCHANGED <<cfg, logv, wr, proto, loopv, chan, outs, restore_done,
                   received, nchunks, emitted, flush_calls, trigger, fail_after_int>>

\* the end of the finally block: `return 1` discards a propagating exception,
\* otherwise that exception leaves miniterm(), otherwise `return 0`
Report ==
    /\ pc = "report"
    /\ IF last_exc # "None"
       THEN /\ stderr' = Append(stderr, "ERROR: last_exc")
            /\ result' = "return 1"
            /\ pending_exc' = "None"
       ELSE /\ result' = IF pending_exc # "None" THEN "raise" ELSE "return 0"
            /\ UNCHANGED <<stderr, pending_exc>>
    /\ pc' = "done"
    /\ UNCHANGED <<cfg, logv, wr, proto, loopv, chan, display, sync_out,
                   restore_calls, restore_done, tty, hist>>

\* KeyboardInterrupt while the error is being printed
KeyboardInterruptInReport ==
    /\ pc = "report"
    /\ last_exc # "None"
    /\ pending_exc' = "KeyboardInterrupt"
    /\ late_interrupt' = TRUE
    /\ result' = "raise"
    /\ pc' = "done"
    /\ UNCHANGED <<cfg, logv, wr, proto, loopv, chan, outs, restore_calls, restore_done, tty,
                   received, nchunks, emitted, flush_calls, trigger, fail_after_int>>

Next ==
    /\ \/ Banner
       \/ OpenFail
       \/ OpenOk
       \/ DeviceFail
       \/ RunOnce(Len(received) < MaxRecv)
       \/ ConnectionMade
       \/ ProcessInputStart
       \/ SyncOutputFileStart
       \/ Runs("read_ready") /\ \E chunk \in Chunks :
              Len(received) + Len(chunk) <= MaxRecv /\ DataReceived(chunk)
       \/ ReadError
       \/ WriteLineAsync
       \/ ConnectionLost
       \/ RunForeverReturn
       \/ KeyboardInterruptInTry
       \/ ExceptClause
       \/ KeyboardInterruptInExcept
       \/ clear_tty_settings
       \/ KeyboardInterruptInRestore
       \/ Report
       \/ KeyboardInterruptInReport
    /\ UNCHANGED <<trip, cli>>

Spec == Init /\ [][Next]_vars

\* ------------------------------------------------------------ CRLF device
\* A device that sends lines terminated by CR LF: at most MaxLines lines, each
\* one of DeviceLines (none holds a CR or an LF).
MaxLines == 2

\* "", " ", "A", " A"
DeviceLines == {<<>>, <<32>>, <<65>>, <<32, 65>>}

\* the open line may still grow into one of DeviceLines
IsLinePrefix(cur) ==
    \E l \in DeviceLines : Len(cur) <= Len(l) /\ SubSeq(l, 1, Len(cur)) = cur

RECURSIVE ScanCRLF(_, _, _, _)
\* scan of a prefix of such a stream: complete lines, the open line, and
\* whether a CR waits for its LF
ScanCRLF(bs, n, cur, cr) ==
    IF bs = <<>> THEN [ok |-> TRUE, n |-> n, cur |-> cur, cr |-> cr]
    ELSE IF cr
         THEN (IF Head(bs) = LF THEN ScanCRLF(Tail(bs), n + 1, <<>>, FALSE)
               ELSE [ok |-> FALSE, n |-> n, cur |-> cur, cr |-> cr])
    ELSE IF n >= MaxLines THEN [ok |-> FALSE, n |-> n, cur |-> cur, cr |-> cr]
    ELSE IF Head(bs) = CR /\ cur \in DeviceLines THEN ScanCRLF(Tail(bs), n, cur, TRUE)
    ELSE IF Head(bs) \notin {CR, LF} /\ IsLinePrefix(Append(cur, Head(bs)))
         THEN ScanCRLF(Tail(bs), n, Append(cur, Head(bs)), FALSE)
    ELSE [ok |-> FALSE, n |-> n, cur |-> cur, cr |-> cr]

IsCRLFPrefix(bs) == ScanCRLF(bs, 0, <<>>, FALSE).ok

\* every line of the stream is terminated
IsCRLFStream(bs) ==
    LET sc == ScanCRLF(bs, 0, <<>>, FALSE) IN sc.ok /\ sc.cur = <<>> /\ ~sc.cr

RECURSIVE CRLFLines(_, _)
\* the lines of a CRLF stream whose CR has arrived, as byte strings
CRLFLines(bs, cur) ==
    IF bs = <<>> THEN <<>>
    ELSE IF Head(bs) = CR THEN <<cur>> \o CRLFLines(Tail(bs), <<>>)
    ELSE IF Head(bs) = LF THEN CRLFLines(Tail(bs), cur)
    ELSE CRLFLines(Tail(bs), Append(cur, Head(bs)))

InitCRLF == Init /\ eol = "crlf"

NextCRLF ==
    /\ \/ Banner
       \/ OpenFail
       \/ OpenOk
       \/ DeviceFail
       \/ RunOnce(\E chunk \in Chunks : IsCRLFPrefix(received \o chunk))
       \/ ConnectionMade
       \/ ProcessInputStart
       \/ SyncOutputFileStart
       \/ Runs("read_ready") /\ \E chunk \in Chunks :
              IsCRLFPrefix(received \o chunk) /\ DataReceived(chunk)
       \/ ReadError
       \/ WriteLineAsync
       \/ ConnectionLost
       \/ RunForeverReturn
       \/ KeyboardInterruptInTry
       \/ ExceptClause
       \/ KeyboardInterruptInExcept
       \/ clear_tty_settings
       \/ KeyboardInterruptInRestore
       \/ Report
       \/ KeyboardInterruptInReport
    /\ UNCHANGED <<trip, cli>>

SpecCRLF == InitCRLF /\ [][NextCRLF]_vars

\* ------------------------------------------------------------ console session
\* The whole console: the device sends a few bytes while the user submits
\* lines at the prompt or closes the input.
MaxSubmit == 2
MaxDeviceBytes == 1

\* "A" and "B\nC" (a pasted text may hold line feeds)
PromptLines == {<<65>>, <<66, LF, 67>>}

\* what one read of the device returns here: a letter or the separator
DeviceChunks == {<<65>>, newline_sep(eol)}

NextConsole ==
    /\ \/ Banner
       \/ OpenFail
       \/ OpenOk
       \/ DeviceFail
       \/ RunOnce(Len(received) < MaxDeviceBytes)
       \/ ConnectionMade
       \/ ProcessInputStart
       \/ SyncOutputFileStart
       \/ Runs("read_ready") /\ \E chunk \in DeviceChunks :
              Len(received) < MaxDeviceBytes /\ DataReceived(chunk)
       \/ ReadError
       \/ CancelledRead
       \/ WriteLineAsync
       \/ Len(submitted) < MaxSubmit /\ \E line \in PromptLines : PromptAccept(line)
       \/ PromptEOF
       \/ ProcessInput
       \/ ProcessInputEOF
       \/ SleepOver
       \/ SyncOutputFileWake
       \/ ConnectionLost
       \/ RunForeverReturn
       \/ KeyboardInterruptInTry
       \/ ExceptClause
       \/ KeyboardInterruptInExcept
       \/ clear_tty_settings
       \/ KeyboardInterruptInRestore
       \/ Report
       \/ KeyboardInterruptInReport
    /\ UNCHANGED <<trip, cli>>

SpecConsole == Init /\ [][NextConsole]_vars

\* The steps the program takes on its own once they are possible: the next
\* statement of miniterm(), and the loop running what is ready or readable.
\* What the user, the device and the clock do is not among them.
ProgramStep ==
    /\ \/ Banner
       \/ OpenFail
       \/ OpenOk
       \/ RunOnce(Len(received) < MaxDeviceBytes)
       \/ ConnectionMade
       \/ ProcessInputStart
       \/ SyncOutputFileStart
       \/ Runs("read_ready") /\ \E chunk \in DeviceChunks :
              Len(received) < MaxDeviceBytes /\ DataReceived(chunk)
       \/ ReadError
       \/ CancelledRead
       \/ WriteLineAsync
       \/ ProcessInput
       \/ ProcessInputEOF
       \/ SyncOutputFileWake
       \/ ConnectionLost
       \/ RunForeverReturn
       \/ ExceptClause
       \/ clear_tty_settings
       \/ Report
    /\ UNCHANGED <<trip, cli>>

\* the console under a scheduler that lets the program run
SpecConsoleFair == SpecConsole /\ WF_vars(ProgramStep)

\* ------------------------------------------------------------ Transform round trip
\* The Transform classes on their own: a text goes through tx of the class
\* parse_transform(eol) names, and what comes out goes through its rx.
MaxTextLen == 3

\* '\n', '\r' and a letter
TextChars == {LF, CR, 65}

Texts == UNION {[1..n -> TextChars] : n \in 0..MaxTextLen}

InitTransform ==
    /\ InitSession
    /\ CliIdle
    /\ t_pc = "tx"
    /\ t_text \in Texts
    /\ t_wire = <<>>
    /\ t_back = <<>>

\* transform.tx(text)
ApplyTx ==
    /\ t_pc = "tx"
    /\ t_wire' = tx(eol, t_text)
    /\ t_pc' = "rx"
    /\ UNCHANGED <<session, cli, t_text, t_back>>

\* transform.rx(...) of what tx returned
ApplyRx ==
    /\ t_pc = "rx"
    /\ t_back' = rx(eol, t_wire)
    /\ t_pc' = "done"
    /\ UNCHANGED <<session, cli, t_text, t_wire>>

NextTransform ==
    \/ ApplyTx
    \/ ApplyRx

SpecTransform == InitTransform /\ [][NextTransform]_vars

\* ------------------------------------------------------------ _cli.py: main()
\* The command line entry point.  An option string is the sequence of its
\* characters, so that the parser's matching of abbreviations is computed.
OptBaudrate == <<"-", "-", "b", "a", "u", "d", "r", "a", "t", "e">>
OptEol == <<"-", "-", "e", "o", "l">>
OptFilter == <<"-", "-", "f", "i", "l", "t", "e", "r">>
OptNoInput == <<"-", "-", "n", "o", "-", "i", "n", "p", "u", "t">>
OptListPorts == <<"-", "-", "l", "i", "s", "t", "-", "p", "o", "r", "t", "s">>
OptHelp == <<"-", "-", "h", "e", "l", "p">>

\* the option strings the parser of main() knows
OptionStrings == {OptBaudrate, OptEol, OptFilter, OptNoInput, OptListPorts, OptHelp}

IsPrefix(a, b) == Len(a) <= Len(b) /\ SubSeq(b, 1, Len(a)) = a

\* a parser that accepts an option only when it is spelled out
option_exact(tok) == IF tok \in OptionStrings THEN {tok} ELSE {}

\* parser.parse_args: the options a token stands for, the option itself or
\* every option it abbreviates
option_matches(tok) ==
    IF tok \in OptionStrings THEN {tok}
    ELSE {o \in OptionStrings : IsPrefix(tok, o)}

\* flags a command line may hold: --list-ports, --list, --no-input, --no and
\* the unknown --x
FlagTokens ==
    {OptListPorts, <<"-", "-", "l", "i", "s", "t">>,
     OptNoInput, <<"-", "-", "n", "o">>, <<"-", "-", "x">>}

\* the ports of the machine; the last one has no location
AllPorts ==
    <<[device |-> "ttyUSB0", vid |-> "0403", location |-> TRUE],
      [device |-> "ttyUSB1", vid |-> "0403", location |-> TRUE],
      [device |-> "ttyACM0", vid |-> "10c4", location |-> TRUE],
      [device |-> "ttyS0", vid |-> "None", location |-> FALSE]>>

PortsNamed(D) == LET T(p) == p.device \in D IN SelectSeq(AllPorts, T)

SystemPorts == {PortsNamed(D) : D \in SUBSET {"ttyUSB0", "ttyUSB1", "ttyACM0", "ttyS0"}}

\* one --filter value: a filter over the fields vid and port ("absent" for a
\* field it does not name), or a value that is no valid filter
FilterItems ==
    {[ok |-> TRUE, vid |-> "absent", port |-> "absent"],
     [ok |-> TRUE, vid |-> "0403", port |-> "absent"],
     [ok |-> TRUE, vid |-> "absent", port |-> "ttyACM0"],
     [ok |-> TRUE, vid |-> "0403", port |-> "ttyUSB1"],
     [ok |-> TRUE, vid |-> "10c4", port |-> "ttyUSB1"],
     [ok |-> FALSE, vid |-> "absent", port |-> "absent"]}

\* parsed_args.filter: None, or the list of the values of --filter
FilterArgs ==
    {[given |-> FALSE, items |-> <<>>], [given |-> TRUE, items |-> <<>>]}
    \cup {[given |-> TRUE, items |-> <<f>>] : f \in FilterItems}
    \cup {[given |-> TRUE, items |-> <<f, g>>] : f, g \in {x \in FilterItems : x.vid # "absent"}}

Argvs == [flags : SUBSET FlagTokens, port : {"None", "ttyUSB0"}, filter : FilterArgs]

\* SerialPortSearcher.list_comports: the ports that have a location
list_comports(ports) == LET T(p) == p.location IN SelectSeq(ports, T)

\* SerialPortSearcher.__init__: the filters, or ValueError for a bad one; no
\* filter at all becomes the one empty filter
searcher_init(filter_info) ==
    IF ~filter_info.given
    THEN [ok |-> TRUE, filters |-> <<[ok |-> TRUE, vid |-> "absent", port |-> "absent"]>>]
    ELSE [ok |-> \A i \in 1..Len(filter_info.items) : filter_info.items[i].ok,
          filters |-> filter_info.items]

\* _FILED_FILTERS: the port attribute each filter field is compared with
port_info_field == [vid |-> "vid", port |-> "device"]

\* filter_info.items(): the fields a filter names, in the order of the dict
FilterFields(f) ==
    (IF f.vid # "absent" THEN <<"vid">> ELSE <<>>)
        \o (IF f.port # "absent" THEN <<"port">> ELSE <<>>)

RECURSIVE FieldsLoop(_, _, _)
\* the inner for/else of _filter_impl: a field that differs breaks the loop,
\* and the else clause sets match_flag when no field did
FieldsLoop(f, names, port) ==
    IF names = <<>> THEN TRUE
    ELSE IF f[Head(names)] # port[port_info_field[Head(names)]] THEN FALSE
    ELSE FieldsLoop(f, Tail(names), port)

\* a filter that matches as soon as one of its fields equals the attribute
FilterMatchesAnyField(f, port) ==
    \E i \in 1..Len(FilterFields(f)) :
        f[FilterFields(f)[i]] = port[port_info_field[FilterFields(f)[i]]]

\* one filter against one port
FilterMatches(f, port) == FieldsLoop(f, FilterFields(f), port)

RECURSIVE FiltersLoop(_, _)
\* the loop over self._filters_info: the first filter that matches ends it
FiltersLoop(filters, port) ==
    IF filters = <<>> THEN FALSE
    ELSE IF FilterMatches(Head(filters), port) THEN TRUE
    ELSE FiltersLoop(Tail(filters), port)

RECURSIVE filter_impl(_, _)
\* SerialPortSearcher._filter_impl: the loop over the ports
filter_impl(filters, ports) ==
    IF ports = <<>> THEN <<>>
    ELSE (IF FiltersLoop(filters, Head(ports)) THEN <<Head(ports)>> ELSE <<>>)
             \o filter_impl(filters, Tail(ports))

InitMain ==
    /\ InitSession
    /\ output_file = FALSE
    /\ TripIdle
    /\ argv \in Argvs
    /\ system_ports \in SystemPorts
    /\ m_pc = "parse_args"
    /\ m_args = NoArgs
    /\ m_device = "None"
    /\ m_printed = <<>>
    /\ m_exit = "running"
    /\ m_resolves = 0
    /\ m_sessions = 0

\* parser.parse_args(args); device = parsed_args.port.  A token that stands
\* for no option, or for several, ends the program with status 2.
MainParseArgs ==
    /\ m_pc = "parse_args"
    /\ IF \E tok \in argv.flags : Cardinality(option_matches(tok)) # 1
       THEN /\ m_exit' = "exit 2"
            /\ m_pc' = "exit"
            /\ UNCHANGED <<m_args, m_device>>
       ELSE /\ m_args' = [list_ports |->
                              \E tok \in argv.flags : option_matches(tok) = {OptListPorts},
                          no_input |->
                              \E tok \in argv.flags : option_matches(tok) = {OptNoInput}]
            /\ m_device' = argv.port
            /\ m_pc' = "dispatch"
            /\ UNCHANGED m_exit
    /\ UNCHANGED <<session, trip, argv, system_ports, m_printed, m_resolves, m_sessions>>

\* if parsed_args.list_ports: print the ports and sys.exit(0)
MainListPorts ==
    /\ m_pc = "dispatch"
    /\ m_args.list_ports
    /\ IF searcher_init(argv.filter).ok
       THEN /\ m_printed' = [i \in 1..Len(list_comports(system_ports)) |->
                                list_comports(system_ports)[i].device]
            /\ m_exit' = "exit 0"
       ELSE /\ m_exit' = "ValueError"
            /\ UNCHANGED m_printed
    /\ m_pc' = "exit"
    /\ UNCHANGED <<session, trip, argv, system_ports, m_args, m_device, m_resolves,
                   m_sessions>>

\* if device is None: device = SerialPortSearcher(...).resolve()
MainResolveDevice ==
    /\ m_pc = "dispatch"
    /\ ~m_args.list_ports
    /\ IF m_device # "None"
       THEN /\ m_pc' = "miniterm"
            /\ UNCHANGED <<m_device, m_exit, m_resolves>>
       ELSE IF ~searcher_init(argv.filter).ok
       THEN /\ m_exit' = "ValueError"
            /\ m_pc' = "exit"
            /\ UNCHANGED <<m_device, m_resolves>>
       ELSE LET ports == list_comports(system_ports)
                matched_ports == filter_impl(searcher_init(argv.filter).filters, ports)
            IN /\ m_resolves' = m_resolves + 1
               /\ IF Len(matched_ports) = 0 \/ (Len(matched_ports) > 1 /\ m_args.no_input)
                  THEN /\ m_exit' = "ResolveError"
                       /\ m_pc' = "exit"
                       /\ UNCHANGED m_device
                  ELSE /\ \E i \in 1..Len(matched_ports) : m_device' = matched_ports[i].device
                       /\ m_pc' = "miniterm"
                       /\ UNCHANGED m_exit
    /\ UNCHANGED <<session, trip, argv, system_ports, m_args, m_printed, m_sessions>>

\* _miniterm_entrypoint(device=device, ...) is entered
MainMiniterm ==
    /\ m_pc = "miniterm"
    /\ m_sessions' = m_sessions + 1
    /\ m_pc' = "session"
    /\ UNCHANGED <<session, trip, argv, system_ports, m_args, m_device, m_printed, m_exit,
                   m_resolves>>

\* sys.exit(...) with what miniterm() returned, or its exception goes on
MainExit ==
    /\ m_pc = "session"
    /\ \E r \in {"return 0", "return 1", "raise"} :
         m_exit' = IF r = "return 0" THEN "exit 0" ELSE IF r = "return 1" THEN "exit 1" ELSE r
    /\ m_pc' = "exit"
    /\ UNCHANGED <<session, trip, argv, system_ports, m_args, m_device, m_printed,
                   m_resolves, m_sessions>>

NextMain ==
    \/ MainParseArgs
    \/ MainListPorts
    \/ MainResolveDevice
    \/ MainMiniterm
    \/ MainExit

SpecMain == InitMain /\ [][NextMain]_vars

\* ------------------------------------------------------------ properties
\* the Separator Byte of the session
Sep == newline_sep(eol)[1]

RECURSIVE Without(_, _)
\* a byte string without the occurrences of one byte
Without(bs, b) ==
    IF bs = <<>> THEN <<>>
    ELSE (IF Head(bs) = b THEN <<>> ELSE <<Head(bs)>>) \o Without(Tail(bs), b)

\* the text of each piece of the received stream between separators
PieceTexts(bs) ==
    LET pieces == Split(bs, newline_sep(eol))
    IN [i \in 1..Len(pieces) |-> rx(eol, Utf8Decode(pieces[i]))]

RECURSIVE JoinLines(_)
\* records separated by a newline
JoinLines(lines) ==
    IF lines = <<>> THEN <<>>
    ELSE IF Len(lines) = 1 THEN Head(lines)
    ELSE Head(lines) \o <<LF>> \o JoinLines(Tail(lines))

\* the session reached Active: the device was opened
WasActive == serial = "open" \/ flush_calls > 0

\* write_line_async tasks that have not run
PendingDisplay == Cardinality({i \in 1..Len(ready) : ready[i].kind = "write_line_async"})

\* C1: when the session has terminated, the received bytes other than
\* separators are exactly the content of the emitted lines, in arrival order
\* (no byte lost, none duplicated).  Stated for the sessions whose cleanup no
\* further interrupt disturbed.
C1_ByteConservation ==
    (pc = "done" /\ ~late_interrupt) => Flatten(emitted) = rx(eol, Utf8Decode(Without(received, Sep)))

\* C2: consuming the received bytes chunk by chunk emits the same lines and
\* leaves the same pending bytes as consuming them in one call, and the
\* flush that follows emits the same final line.
C2_ChunkIndependence ==
    LET one == consume_data(eol, <<>>, received)
        fl == consume_data(eol, one.buf, newline_sep(eol))
    IN IF flush_calls = 0
       THEN emitted = one.lines /\ Flatten(buf) = Flatten(one.buf)
       ELSE emitted = one.lines \o fl.lines

\* C2 witness: LF and the two bytes of U+00E9 arrived in three chunks, so the
\* character is split between two chunks, and the flush has run: an empty
\* line and then the flushed line of that one character.
C2_Witness ==
    /\ eol = "lf"
    /\ received = <<LF, 195, 169>>
    /\ nchunks = 3
    /\ flush_calls = 1
    /\ emitted = << <<>>, <<233>> >>

\* C3: a session that ends with unterminated bytes after the last separator
\* has emitted them as a line exactly once, after every line completed by a
\* separator.  Stated for the sessions whose cleanup no further interrupt
\* disturbed.
C3_FlushGuarantee ==
    (pc = "done" /\ ~late_interrupt /\ received # <<>> /\ received[Len(received)] # Sep)
        => emitted = PieceTexts(received)

\* C4: whichever event ended the Active phase, before the session is
\* terminated the flush has been invoked, the log is closed, the device handle
\* is released and the terminal restore has run.  Stated for the sessions
\* whose cleanup no further interrupt disturbed.
C4_FullCleanup ==
    (pc = "done" /\ ~late_interrupt /\ WasActive)
        => /\ flush_calls = 1
           /\ ~output_file_obj
           /\ serial = "closed"
           /\ transport = "None"
           /\ restore_done

\* C5: the terminal restore runs exactly once on every path by which
\* miniterm() ends, before any message is on the error stream and before an
\* exit status is returned.
C5_RestoreOnce ==
    /\ restore_calls <= 1
    /\ pc = "done" => restore_calls = 1
    /\ stderr # <<>> => restore_calls = 1
    /\ result \in {"return 0", "return 1"} => restore_calls = 1

\* C6: the exit status is 1 exactly when a Last Error is recorded and the
\* session was not ended by a user interrupt, and 0 otherwise; a device error
\* exits 1 with the error printed, a user interrupt exits 0 with none printed.
\* Stated for the sessions whose cleanup no further interrupt disturbed.
C6_ShutdownClassification ==
    (pc = "done" /\ ~late_interrupt)
        => /\ (result = "return 1") <=> (last_exc # "None" /\ trigger # "interrupt")
           /\ (result # "return 1") => (result = "return 0")
           /\ (trigger = "device_error") => (result = "return 1" /\ stderr # <<>>)
           /\ (trigger = "interrupt") => (result = "return 0" /\ stderr = <<>>)

\* C7: an interrupt that arrives during the cleanup of a session ended by a
\* user interrupt or a device error is ignored: the terminal restore still
\* completes and the exit status is the one the session had determined
\* before it (1 with a Last Error recorded, else 0).
C7_InterruptDuringDraining ==
    (pc = "done" /\ late_interrupt /\ trigger \in {"interrupt", "device_error"})
        => /\ restore_done
           /\ result = IF last_exc # "None" THEN "return 1" ELSE "return 0"

\* C8: when a user interrupt began the shutdown and the device failed
\* afterwards, in every interleaving the session exits with status 0 and
\* prints no error.
C8_InterruptThenError ==
    (pc = "done" /\ trigger = "interrupt" /\ fail_after_int)
        => (result = "return 0" /\ stderr = <<>>)

\* C9: with logging configured and the session ended by disconnect, the log
\* file holds the emitted lines in order, one record per line, separated by a
\* newline.  Stated for the sessions whose cleanup no further interrupt
\* disturbed.
C9_LogFileContent ==
    (pc = "done" /\ ~late_interrupt /\ output_file /\ trigger = "device_error")
        => log_content = JoinLines(emitted)

\* the display text of each line of a CRLF stream
CRLFTexts(bs) ==
    LET ls == CRLFLines(bs, <<>>) IN [i \in 1..Len(ls) |-> Utf8Decode(ls[i])]

\* the same, stripped of leading and trailing whitespace
CRLFStripped(bs) ==
    LET ls == CRLFLines(bs, <<>>) IN [i \in 1..Len(ls) |-> Strip(Utf8Decode(ls[i]))]

\* every display task of a line received from the device has run
LinesDisplayed == PendingDisplay = flush_calls

\* C10 as stated: with EOL=crlf and a stream of CR LF terminated lines, in
\* any split, the display receives exactly the line texts, one call per line,
\* in order.
C10_CRLFDisplayExact ==
    (eol = "crlf" /\ IsCRLFStream(received) /\ LinesDisplayed)
        => display = CRLFTexts(received)

\* C10 amended: the display receives the line texts stripped of leading and
\* trailing whitespace: at any moment a prefix of them, in order and without
\* any extra line, and all of them once the display tasks of the lines have
\* run.
C10_CRLFDisplayStripped ==
    eol = "crlf" =>
        LET exp == CRLFStripped(received)
        IN /\ Len(display) <= Len(exp)
           /\ display = SubSeq(exp, 1, Len(display))
           /\ (IsCRLFStream(received) /\ LinesDisplayed) => display = exp

\* C10 witness: " \r\nA\r\n" arrived in three chunks of two bytes, one split
\* between a CR and its LF, the device then disconnected and the session has
\* ended: the display holds "" and "A" and nothing else.
C10_Witness ==
    /\ eol = "crlf"
    /\ received = <<32, CR, LF, 65, CR, LF>>
    /\ nchunks = 3
    /\ pc = "done"
    /\ trigger = "device_error"
    /\ flush_calls = 1
    /\ display = << <<>>, <<65>> >>

\* ------------------------------------------------------------ C11
NoCR(text) == \A i \in 1..Len(text) : text[i] # CR

\* C11: for each of the three conventions and every text without '\r', rx of
\* tx of the text is the text again; for the LF convention tx and rx return
\* every text unchanged, a text holding '\r' included.
C11_RoundTrip ==
    /\ (t_pc = "done" /\ NoCR(t_text)) => t_back = t_text
    /\ (t_pc = "done" /\ eol = "lf") =>
           (t_wire = t_text /\ t_back = t_text /\ rx(eol, t_text) = t_text)

\* "A\nA" went out as "A\r\nA" and came back as "A\nA"
C11_Witness ==
    /\ t_pc = "done"
    /\ eol = "crlf"
    /\ t_text = <<65, LF, 65>>
    /\ t_wire = <<65, CR, LF, 65>>
    /\ t_back = t_text

\* ------------------------------------------------------------ C12
\* the data of the transport.write calls so far
WrittenData == [i \in 1..Len(write_calls) |-> write_calls[i].data]

\* C12 as stated: when the session has ended, there is exactly one
\* transport.write for every line the user submitted, in submission order.
C12_OneWritePerLine ==
    pc = "done" =>
        /\ Len(write_calls) = Len(submitted)
        /\ \A i \in 1..Len(submitted) : write_calls[i].data = TxData(eol, submitted[i])

\* C12, amended: the transport.write calls are, in order, one per submitted
\* line, for every submitted line but possibly the last: that one has no write
\* yet, and never gets one when the session ends before the task resumes.
\* No write is merged with another or repeated, and the writes that reached
\* the device are the first ones.
C12_WritesFollowSubmissions ==
    /\ Len(write_calls) <= Len(submitted)
    /\ Len(submitted) <= Len(write_calls) + 1
    /\ Len(submitted) > Len(write_calls) => input_task = "woken"
    /\ \A i \in 1..Len(write_calls) : write_calls[i].data = TxData(eol, submitted[i])
    /\ \A i, j \in 1..Len(write_calls) :
           (i < j /\ write_calls[j].st = "sent") => write_calls[i].st = "sent"

\* two different lines were submitted and both reached the device, in order
C12_Witness ==
    /\ submitted = <<<<66, LF, 67>>, <<65>>>>
    /\ Len(write_calls) = 2
    /\ write_calls[1].st = "sent"
    /\ write_calls[2].st = "sent"
    /\ eol = "lf"
    /\ WrittenData = <<<<66, LF, 67, LF>>, <<65, LF>>>>

\* ------------------------------------------------------------ C13
\* C13: for every convention and every submitted text, a '\n' inside it
\* included, the bytes handed to transport.write are the UTF-8 of tx(text)
\* followed by the UTF-8 of tx("\n").
C13_OutboundEncoding ==
    \A i \in 1..Len(write_calls) :
        write_calls[i].data =
            Utf8Encode(tx(eol, submitted[i])) \o Utf8Encode(tx(eol, <<LF>>))

\* ------------------------------------------------------------ C14
\* C14: the output file is opened only when one is configured and only after
\* the device was opened, at most once; it is never closed more often than
\* opened; no line is written to it while it is not open; and when the
\* session has ended it has been closed exactly once if it was opened.  Stated
\* for the sessions whose cleanup no further interrupt disturbed.
C14_LogLifecycle ==
    /\ log_opens <= 1
    /\ log_opens > 0 => (output_file /\ trigger # "open_error")
    /\ log_closes <= log_opens
    /\ ~log_stray
    /\ (pc = "done" /\ ~late_interrupt) => log_closes = log_opens

\* ------------------------------------------------------------ C20
\* C20: the periodic flush task never calls flush() while the output file is
\* closed or absent, and it never ends with an error: once the file is
\* closed the task just stops.
C20_FlushSafe ==
    /\ ~flush_absent
    /\ sync_task # "failed"

\* ------------------------------------------------------------ C16
\* the task of _process_input_async has ended with an error that is no
\* KeyboardInterrupt, or one of its writes was a fatal error of the transport
WriteActivityFailed ==
    \/ input_task = "failed"
    \/ \E i \in 1..Len(write_calls) : write_calls[i].st = "error"

\* C16: once the write activity has failed with an error other than a user
\* interrupt, the session eventually ends: miniterm() leaves run_forever,
\* goes through its finally block and returns or raises.
C16_WriteFailureEndsSession == WriteActivityFailed ~> (pc = "done")

\* ------------------------------------------------------------ C17
\* C17: when opening the device fails, the session ends without ever having
\* been Active (no write task was started, no line was emitted), the failure
\* is recorded in last_exc and miniterm() returns 1.  Stated for the sessions
\* whose cleanup no further interrupt disturbed.
C17_OpenFailure ==
    (pc = "done" /\ trigger = "open_error" /\ ~late_interrupt) =>
        /\ input_task = "none"
        /\ emitted = <<>>
        /\ last_exc # "None"
        /\ result = "return 1"

\* ------------------------------------------------------------ C18
\* C18: every transport.write of the write activity happens while the device
\* is open and the transport is connected: never before the open succeeded,
\* never while the transport is closing, never after connection_lost has run.
C18_WriteOnlyConnected ==
    /\ write_calls # <<>> => trigger # "open_error"
    /\ \A i \in 1..Len(write_calls) : write_calls[i].st \notin {"closing", "lost"}

\* ------------------------------------------------------------ C19
\* C19: every line _consume_data emitted, the line of the final flush
\* included, has been written to the display when the session has terminated:
\* no write_line_async task is left waiting.  Stated for the sessions a loss
\* of the connection ended and whose cleanup no interrupt disturbed.
C19_DisplayDelivery ==
    (pc = "done" /\ trigger = "device_error" /\ ~late_interrupt) =>
        /\ PendingDisplay = 0
        /\ display = [i \in 1..Len(emitted) |-> write_line_text(emitted[i])]

\* ------------------------------------------------------------ C15
\* the command line asks for the port list, by --list-ports or a prefix of
\* it, names no filter, and holds nothing the parser rejects
ListPortsCall ==
    /\ \E tok \in argv.flags : tok # <<>> /\ IsPrefix(tok, OptListPorts)
                               /\ \A o \in OptionStrings \ {OptListPorts} : ~IsPrefix(tok, o)
    /\ \A tok \in argv.flags : \E o \in OptionStrings : IsPrefix(tok, o)
    /\ ~argv.filter.given

\* C15: main() called with --list-ports (or --list) and no filter never
\* resolves a device and never enters miniterm(), which alone opens the
\* device, and it ends with exit status 0.
C15_ListPortsMode ==
    ListPortsCall =>
        /\ m_resolves = 0
        /\ m_sessions = 0
        /\ m_pc \notin {"miniterm", "session"}
        /\ m_pc = "exit" => m_exit = "exit 0"

\* main(["--list", "ttyUSB0"]) has printed two ports and left with 0
C15_Witness ==
    /\ argv.flags = {<<"-", "-", "l", "i", "s", "t">>}
    /\ argv.port = "ttyUSB0"
    /\ ~argv.filter.given
    /\ m_pc = "exit"
    /\ m_exit = "exit 0"
    /\ m_printed = <<"ttyUSB0", "ttyACM0">>

\* ------------------------------------------------------------ C21
\* positions of a byte in a byte string
SepAt(bs, sep) == {i \in 1..Len(bs) : bs[i] = sep}

\* the bytes after the last occurrence of a byte
SinceLastSep(bs, sep) ==
    LET at == SepAt(bs, sep)
        last == IF at = {} THEN 0 ELSE CHOOSE i \in at : \A j \in at : j <= i
    IN SubSeq(bs, last + 1, Len(bs))

\* C21: from connection_made until connection_lost, after every consume, the
\* joined buffer holds no Separator Byte and is exactly the bytes received
\* since the last one; the lines emitted so far are as many as the Separator
\* Bytes received, plus the one of the final flush, so each consume(chunk)
\* emits as many lines as its chunk has Separator Bytes; after
\* connection_lost the buffer is empty.
C21_PendingBuffer ==
    LET sep == Sep
        pending == Flatten(buf)
    IN /\ transport = "SerialTransport" =>
              /\ SepAt(pending, sep) = {}
              /\ pending = SinceLastSep(received, sep)
       /\ Len(emitted) = Cardinality(SepAt(received, sep)) + flush_calls
       /\ flush_calls > 0 => buf = <<>>

\* "A", separator, "A" came in two chunks: one line was emitted and the
\* second "A" waits in the buffer
C21_Witness ==
    /\ transport = "SerialTransport"
    /\ received = <<65, Sep, 65>>
    /\ nchunks = 2
    /\ Len(emitted) = 1
    /\ Flatten(buf) = <<65>>

\* ------------------------------------------------------------ C22
\* the ports resolve() looks at, and the filters of the searcher
ResolvePorts == list_comports(system_ports)
ResolveFilters == searcher_init(argv.filter).filters

\* the ports that match: at least one filter has every field it names equal
\* to the attribute of the port
MatchingPorts ==
    {i \in 1..Len(ResolvePorts) :
        \E k \in 1..Len(ResolveFilters) :
            /\ ResolveFilters[k].vid \in {"absent", ResolvePorts[i].vid}
            /\ ResolveFilters[k].port \in {"absent", ResolvePorts[i].device}}

\* C22: once resolve() has been called, over the ports list_comports reports:
\* with exactly one matching port its device is the result; with none
\* ResolveError is raised; with several and no_input set ResolveError is
\* raised; with several and input allowed the result is one of them.  A
\* raised ResolveError ends main() before miniterm() is entered.
C22_PortResolution ==
    m_resolves = 1 =>
        /\ Cardinality(MatchingPorts) = 1 =>
               /\ \A i \in MatchingPorts : m_device = ResolvePorts[i].device
               /\ m_exit \notin {"ResolveError", "ValueError"}
        /\ (Cardinality(MatchingPorts) = 0
               \/ (Cardinality(MatchingPorts) > 1 /\ m_args.no_input)) =>
               /\ m_exit = "ResolveError"
               /\ m_device = "None"
               /\ m_sessions = 0
        /\ (Cardinality(MatchingPorts) > 1 /\ ~m_args.no_input) =>
               \E i \in MatchingPorts : m_device = ResolvePorts[i].device

\* three ports, the filters vid=10c4,port=ttyUSB1 (matches none) and
\* vid=0403,port=ttyUSB1: the second filter selects ttyUSB1 alone
C22_Witness ==
    /\ m_resolves = 1
    /\ Len(ResolvePorts) = 3
    /\ argv.filter.items = <<[ok |-> TRUE, vid |-> "10c4", port |-> "ttyUSB1"],
                             [ok |-> TRUE, vid |-> "0403", port |-> "ttyUSB1"]>>
    /\ MatchingPorts = {2}
    /\ m_device = "ttyUSB1"
    /\ m_pc = "miniterm"

====
